---- MODULE Spec2Model ----
(***************************************************************************)
(* Model of DatabaseExtractor (src/Extraction/extractor.py): the per-paper *)
(* pipeline extract_paper, the single-process strategy and the MPI         *)
(* primary/worker strategy.                                                *)
(*                                                                         *)
(* File names are sequences of tokens ("a", ".", "xml", ...): "." is a     *)
(* token of its own, so that splitext, the leading-dot test and the        *)
(* 'records.txt' substring test are computed as the code computes them.    *)
(* The external collaborators (document loader, extraction engine, cacher, *)
(* validator, filter) are deterministic stubs keyed by the file name.      *)
(***************************************************************************)
EXTENDS Integers, Sequences, FiniteSets, TLC

VARIABLES
    self,            \* the extractor's configuration (__init__): size, cache_dir, ...
    listdir,         \* os.listdir(document_dir): the directory's entries, in order
    arg_num_papers,  \* the num_papers argument of the strategy: <<>> (None) or <<n>>
    run,             \* "first" or "second": which run of the pipeline this is
    prevStores,      \* the record stores as the first run left them
    pc,              \* per process (0 = primary / the single process): where it is
    filenames,       \* the enumerated work units (lines 299, 321)
    num_papers,      \* primary: the cap after defaulting (line 322)
    index,           \* primary: units assigned so far; single process: loop index
    n_finished,      \* primary: number of completion reports received
    loop_i,          \* primary: the loop variable i of the for loops (327, 351)
    toWorker,        \* per worker: messages sent with AWAITING_DATA_TAG, in order
    toPrimary,       \* per worker: messages it sent with RETURNING_DATA_TAG, in order
    document_path,   \* per process: the argument of the current extract_paper call
    did_use_cache,   \* per process: extract_paper's local
    document_records,\* per process: extract_paper's local
    alarm,           \* per process: a SIGALRM is pending (signal.alarm(300))
    exc,             \* per process: the exception that ended the last extract_paper
    stores,          \* the output root: record store name -> <<records>>, or NoStore
    cache,           \* the cache directory: document path -> number of times written
    wandb_run,       \* wandb.run: "None" or "run"
    wandb_log,       \* the values logged as num_papers_processed, in order
    assignments,     \* history: the assignments the primary sent, [to, path], in order
    reports,         \* history: per worker, the completion reports the primary received
    setups,          \* history: the calls of will_start_extraction made in this run
    filter_calls     \* history: the collections filter_results was called with in this run

vars == <<self, listdir, arg_num_papers, run, prevStores, pc, filenames, num_papers,
          index, n_finished, loop_i, toWorker, toPrimary, document_path,
          did_use_cache, document_records, alarm, exc, stores, cache, wandb_run,
          wandb_log, assignments, reports, setups, filter_calls>>

-----------------------------------------------------------------------------
(* Bounds of the model *)

MaxWorkers == 2
MaxCap == 2
MaxFiles == 3

(* Program constants *)

AWAITING_DATA_TAG == 111
RETURNING_DATA_TAG == 222

None == "None"
NoCap == <<>>                               \* num_papers=None
NoStore == <<>>                             \* no record store of that name exists
NoPath == [dir |-> "", name |-> <<>>]       \* no extract_paper call made yet

-----------------------------------------------------------------------------
(* The corpus: the files a source directory may hold *)

AXml == <<"a", ".", "xml">>
APdf == <<"a", ".", "pdf">>
BXml == <<"b", ".", "xml">>
CXml == <<"c", ".", "xml">>
HiddenXml == <<".", "hidden", ".", "xml">>
ARecordsTxt == <<"a", "_", "records", ".", "txt">>

CorpusOrder == <<AXml, APdf, BXml, CXml, HiddenXml, ARecordsTxt>>

Corpus == {CorpusOrder[k] : k \in 1..Len(CorpusOrder)}

Documents == {AXml, APdf, BXml, CXml}

PickFiles(S) == SelectSeq(CorpusOrder, LAMBDA f : f \in S)

\* A directory holds at most MaxFiles documents, with or without the two entries
\* that are no documents (a hidden file, a text dump of an earlier run).
Directories ==
    {PickFiles(D \cup O) : D \in {S \in SUBSET Documents : Cardinality(S) <= MaxFiles},
                           O \in {{}, {HiddenXml, ARecordsTxt}}}

(* Stubs of the external collaborators, keyed by file name *)

LoadFails(name) == name = CXml

SupportsCaching(name) == name # APdf

IsValidDocument(name) == name # BXml

\* the validator, when one is configured, raises on this document
ValidatorRaises(name) == name = APdf

DocRecords(name) ==
    IF name = AXml THEN {1, 2}
    ELSE IF name = APdf THEN {3}
    ELSE IF name = BXml THEN {5, 6}
    ELSE {}

FilterStub(records) == {r \in records : r % 2 = 1}

-----------------------------------------------------------------------------
(* Pure functions of the extractor *)

RecordsMarker == <<"records", ".", "txt">>

Contains(name, part) ==
    \E k \in 1..(Len(name) - Len(part) + 1) : SubSeq(name, k, k + Len(part) - 1) = part

\* mutant: the text dumps of an earlier run are not left out
NotHidden(name) == name[1] # "."

\* lines 299, 321: the test of the list comprehension
IsWorkUnit(name) == name[1] # "." /\ ~Contains(name, RecordsMarker)

EnumerateFiles(listing) == SelectSeq(listing, IsWorkUnit)

FullPath(name) == [dir |-> "document_dir", name |-> name]

SplitExt(name) ==
    LET dots == {k \in 1..Len(name) : name[k] = "."}
        d == IF dots = {} THEN 0 ELSE CHOOSE k \in dots : \A j \in dots : j <= k
    IN  IF d > 0 /\ \E k \in 1..(d - 1) : name[k] # "."
        THEN SubSeq(name, 1, d - 1)
        ELSE name

db_name_for_file(path) == [root |-> "save_root_dir", name |-> SplitExt(path.name)]

StoreNames == {db_name_for_file(FullPath(n)) : n \in Corpus}

Paths == {FullPath(n) : n \in Corpus}

\* mutant: the skip gate lets every unit through
AlwaysOpen(path) == TRUE

\* lines 145-149
should_open_file(path) == stores[db_name_for_file(path)] = NoStore

\* mutant: the validator is not consulted
ProcessAnyDocument(path) == TRUE

\* lines 163-168
should_process_document(path) ==
    IF ~self.is_valid_document THEN TRUE ELSE IsValidDocument(path.name)

\* mutant: the filter is called on an empty collection too
FilterConfigured(records) == self.filter_results

\* line 195: the filter is called
CallsFilter(records) == self.filter_results /\ Cardinality(records) # 0

\* line 195-196
filtered(records) == IF CallsFilter(records) THEN FilterStub(records) ELSE records

-----------------------------------------------------------------------------
Procs == 0..(self.size - 1)
Workers == 1..(self.size - 1)

AssignMsg(path) == [exit |-> FALSE, document_path |-> path]
ExitMsg == [exit |-> TRUE]

Off(c) == {f \in {"cache_dir", "is_valid_document", "filter_results", "use_wandb"} : ~c[f]}

\* The configurations explored: with one process or one worker at most one of the
\* optional features is left out, with more workers none is.
Configs ==
    {c \in [size : 1..(MaxWorkers + 1), use_mpi : BOOLEAN, cache_dir : BOOLEAN,
            is_valid_document : BOOLEAN, filter_results : BOOLEAN, use_wandb : BOOLEAN] :
        /\ c.use_mpi <=> c.size > 1
        /\ Cardinality(Off(c)) <= (IF c.size > 2 THEN 0 ELSE 1)}

InitialPc == [p \in Procs |-> IF p = 0 THEN "start" ELSE "recv"]

Init ==
    /\ self \in Configs
    /\ listdir \in Directories
    /\ arg_num_papers \in {NoCap} \cup {<<n>> : n \in 0..MaxCap}
    /\ run = "first"
    /\ stores = [s \in StoreNames |-> NoStore]
    /\ prevStores = stores
    /\ cache \in {[p \in Paths |-> 0], [p \in Paths |-> 1]}
    /\ pc = InitialPc
    /\ filenames = <<>>
    /\ num_papers = 0
    /\ index = 0
    /\ n_finished = 0
    /\ loop_i = 0
    /\ toWorker = [w \in Workers |-> <<>>]
    /\ toPrimary = [w \in Workers |-> <<>>]
    /\ document_path = [p \in Procs |-> NoPath]
    /\ did_use_cache = [p \in Procs |-> FALSE]
    /\ document_records = [p \in Procs |-> {}]
    /\ alarm = [p \in Procs |-> FALSE]
    /\ exc = [p \in Procs |-> None]
    /\ wandb_run = None
    /\ wandb_log = <<>>
    /\ assignments = <<>>
    /\ reports = [w \in Workers |-> 0]
    /\ setups = 0
    /\ filter_calls = {}

config == <<self, listdir, arg_num_papers, run, prevStores>>
primary == <<filenames, num_papers, index, n_finished, loop_i>>
channels == <<toWorker, toPrimary>>
locals == <<did_use_cache, document_records>>
telemetry == <<wandb_run, wandb_log, setups>>
history == <<assignments, reports, filter_calls>>

-----------------------------------------------------------------------------
(* The primary of _extract_mpi *)

\* mutant: the unit handed out is the one before the running index
StaleFile(names, i) == names[IF i = 0 THEN 1 ELSE i]

\* lines 328, 347: filenames[index], the index counting from 0
NextFile(names, i) == names[i + 1]

\* lines 318-322: enumerate the work units and default the cap
Enumerate ==
    /\ self.use_mpi
    /\ pc[0] = "start"
    /\ filenames' = EnumerateFiles(listdir)
    /\ num_papers' = IF arg_num_papers = NoCap THEN Len(filenames') ELSE arg_num_papers[1]
    /\ loop_i' = 1
    /\ pc' = [pc EXCEPT ![0] = "fanout"]
    /\ UNCHANGED <<config, history, index, n_finished, channels, document_path, locals, exc,
                   alarm, stores, cache, telemetry>>

\* mutant: the fan-out sends every unit to the first worker
FanOutToFirst ==
    /\ pc[0] = "fanout"
    /\ IF index + 1 > Len(filenames)
       THEN \* filenames[index] raises IndexError
            /\ pc' = [pc EXCEPT ![0] = "crashed"]
            /\ UNCHANGED <<index, loop_i, toWorker, assignments>>
       ELSE /\ toWorker' = [toWorker EXCEPT
                  ![1] = Append(@, AssignMsg(FullPath(NextFile(filenames, index))))]
            /\ assignments' = Append(assignments,
                  [to |-> 1, path |-> FullPath(NextFile(filenames, index))])
            /\ index' = index + 1
            /\ loop_i' = loop_i + 1
            /\ pc' = [pc EXCEPT ![0] = IF loop_i = self.size - 1 THEN "wait" ELSE "fanout"]
    /\ UNCHANGED <<config, reports, filter_calls, filenames, num_papers, n_finished, toPrimary,
                   document_path, locals, exc, alarm, stores, cache, telemetry>>

\* lines 326-331: one iteration of the initial for loop (index == 0 on entry)
FanOut ==
    /\ pc[0] = "fanout"
    /\ IF index + 1 > Len(filenames)
       THEN \* filenames[index] raises IndexError
            /\ pc' = [pc EXCEPT ![0] = "crashed"]
            /\ UNCHANGED <<index, loop_i, toWorker, assignments>>
       ELSE /\ toWorker' = [toWorker EXCEPT
                  ![loop_i] = Append(@, AssignMsg(FullPath(NextFile(filenames, index))))]
            /\ assignments' = Append(assignments,
                  [to |-> loop_i, path |-> FullPath(NextFile(filenames, index))])
            /\ index' = index + 1
            /\ loop_i' = loop_i + 1
            /\ pc' = [pc EXCEPT ![0] = IF loop_i = self.size - 1 THEN "wait" ELSE "fanout"]
    /\ UNCHANGED <<config, reports, filter_calls, filenames, num_papers, n_finished, toPrimary,
                   document_path, locals, exc, alarm, stores, cache, telemetry>>

\* mutant: the primary leaves its loop without waiting for the reports
ShouldBreakEarly(finished, assigned, cap) == assigned >= cap

\* line 343: the primary leaves its loop
ShouldBreak(finished, assigned, cap) == finished = assigned /\ assigned >= cap

\* line 345: the primary hands out another unit
ShouldAssign(assigned, cap) == assigned < cap

\* lines 333-350: receive one completion report, then break, reassign or wait on
PrimaryRecv(w) ==
    /\ pc[0] = "wait"
    /\ toPrimary[w] # <<>>
    /\ toPrimary' = [toPrimary EXCEPT ![w] = Tail(@)]
    /\ n_finished' = n_finished + 1
    /\ reports' = [reports EXCEPT ![w] = @ + 1]
    /\ wandb_log' = IF self.use_wandb THEN Append(wandb_log, n_finished') ELSE wandb_log
    /\ IF ShouldBreak(n_finished', index, num_papers)
       THEN /\ pc' = [pc EXCEPT ![0] = "exit"]
            /\ loop_i' = 1
            /\ UNCHANGED <<index, toWorker, assignments>>
       ELSE IF ShouldAssign(index, num_papers)
       THEN IF index + 1 > Len(filenames)
            THEN \* filenames[index] raises IndexError
                 /\ pc' = [pc EXCEPT ![0] = "crashed"]
                 /\ UNCHANGED <<index, loop_i, toWorker, assignments>>
            ELSE /\ toWorker' = [toWorker EXCEPT
                       ![w] = Append(@, AssignMsg(FullPath(NextFile(filenames, index))))]
                 /\ assignments' = Append(assignments,
                       [to |-> w, path |-> FullPath(NextFile(filenames, index))])
                 /\ index' = index + 1
                 /\ UNCHANGED <<pc, loop_i>>
       ELSE UNCHANGED <<pc, index, loop_i, toWorker, assignments>>
    /\ UNCHANGED <<config, filenames, num_papers, document_path, locals, exc, alarm,
                   stores, cache, wandb_run, setups, filter_calls>>

\* mutant: every worker is sent the exit signal twice
ExitWorkerTwice ==
    /\ pc[0] = "exit"
    /\ toWorker' = [toWorker EXCEPT ![loop_i] = Append(Append(@, ExitMsg), ExitMsg)]
    /\ loop_i' = loop_i + 1
    /\ pc' = [pc EXCEPT ![0] = IF loop_i = self.size - 1 THEN "done" ELSE "exit"]
    /\ UNCHANGED <<config, history, filenames, num_papers, index, n_finished, toPrimary,
                   document_path, locals, exc, alarm, stores, cache, telemetry>>

\* lines 351-352, 365-367: one iteration of the exit loop
ExitWorker ==
    /\ pc[0] = "exit"
    /\ toWorker' = [toWorker EXCEPT ![loop_i] = Append(@, ExitMsg)]
    /\ loop_i' = loop_i + 1
    /\ pc' = [pc EXCEPT ![0] = IF loop_i = self.size - 1 THEN "done" ELSE "exit"]
    /\ UNCHANGED <<config, history, filenames, num_papers, index, n_finished, toPrimary,
                   document_path, locals, exc, alarm, stores, cache, telemetry>>

-----------------------------------------------------------------------------
(* _extract_single_threaded *)

\* lines 297-299
EnumerateSingle ==
    /\ ~self.use_mpi
    /\ pc[0] = "start"
    /\ filenames' = EnumerateFiles(listdir)
    /\ index' = 0
    /\ pc' = [pc EXCEPT ![0] = "for"]
    /\ UNCHANGED <<config, history, num_papers, n_finished, loop_i, channels, document_path,
                   locals, exc, alarm, stores, cache, telemetry>>

\* line 302: the loop stops at the cap
PastCap(i, cap) == cap # NoCap /\ i > cap[1]

\* lines 301-310: the head of one loop iteration, up to the call of extract_paper
NextPaper ==
    /\ pc[0] = "for"
    /\ IF index + 1 > Len(filenames) \/ PastCap(index, arg_num_papers)
       THEN /\ pc' = [pc EXCEPT ![0] = "done"]
            /\ UNCHANGED <<document_path, wandb_log>>
       ELSE /\ wandb_log' = IF self.use_wandb THEN Append(wandb_log, index) ELSE wandb_log
            /\ document_path' = [document_path EXCEPT ![0] = FullPath(filenames[index + 1])]
            /\ pc' = [pc EXCEPT ![0] = "should_open"]
    /\ UNCHANGED <<config, history, primary, channels, locals, exc, alarm, stores, cache,
                   wandb_run, setups>>

-----------------------------------------------------------------------------
(* extract_paper, run by process p *)

\* mutant: the worker has no except clause either
RaiseUncaught(p, e) ==
    /\ pc' = [pc EXCEPT ![p] = "crashed"]
    /\ exc' = [exc EXCEPT ![p] = e]
    /\ did_use_cache' = [did_use_cache EXCEPT ![p] = FALSE]
    /\ document_records' = [document_records EXCEPT ![p] = {}]
    /\ alarm' = [alarm EXCEPT ![p] = FALSE]

\* An exception leaves extract_paper: it is caught at line 379 in a worker, and
\* nothing catches it in _extract_single_threaded. The locals are gone.
Raise(p, e) ==
    /\ pc' = [pc EXCEPT ![p] = IF self.use_mpi THEN "report" ELSE "crashed"]
    /\ exc' = [exc EXCEPT ![p] = e]
    /\ did_use_cache' = [did_use_cache EXCEPT ![p] = FALSE]
    /\ document_records' = [document_records EXCEPT ![p] = {}]
    /\ alarm' = IF self.use_mpi THEN alarm ELSE [alarm EXCEPT ![p] = FALSE]

\* lines 98-115, with the output root in place
will_start_extraction ==
    /\ wandb_run' = IF self.use_wandb /\ wandb_run = None THEN "run" ELSE wandb_run
    /\ setups' = setups + 1

\* lines 262-289: the end of extract_paper. Lines 283-289 are statements of
\* extract_paper: the setup call, then document_dir, which is no name in scope
Finish(p) ==
    /\ IF ~self.use_mpi \/ p = 0
       THEN will_start_extraction
       ELSE UNCHANGED <<wandb_run, setups>>
    /\ Raise(p, "NameError")

\* line 236 (and 262-289 when the unit is skipped)
ShouldOpenFile(p) ==
    /\ pc[p] = "should_open"
    /\ IF should_open_file(document_path[p])
       THEN /\ pc' = [pc EXCEPT ![p] = "load"]
            /\ UNCHANGED <<exc, locals, alarm, wandb_run, setups>>
       ELSE Finish(p)
    /\ UNCHANGED <<config, history, primary, channels, document_path, stores, cache, wandb_log>>

\* lines 237-239: load and configure the document
LoadDocument(p) ==
    /\ pc[p] = "load"
    /\ IF LoadFails(document_path[p].name)
       THEN Raise(p, "LoadError")
       ELSE /\ did_use_cache' = [did_use_cache EXCEPT ![p] = FALSE]
            /\ pc' = [pc EXCEPT ![p] = "hydrate"]
            /\ UNCHANGED <<exc, document_records, alarm>>
    /\ UNCHANGED <<config, history, primary, channels, document_path, stores, cache, telemetry>>

\* what hydrate_document does: AttributeError on a miss or an unsupported document
HydrateSucceeds(path) == cache[path] > 0 /\ SupportsCaching(path.name)

\* mutant: a failed hydration is not caught
HydrateDocumentUncaught(p) ==
    /\ pc[p] = "hydrate"
    /\ IF self.cache_dir /\ ~HydrateSucceeds(document_path[p])
       THEN Raise(p, "AttributeError")
       ELSE /\ did_use_cache' = [did_use_cache EXCEPT ![p] = self.cache_dir]
            /\ document_records' = [document_records EXCEPT ![p] = {}]
            /\ pc' = [pc EXCEPT ![p] = "validate"]
            /\ UNCHANGED <<exc, alarm>>
    /\ UNCHANGED <<config, history, primary, channels, document_path, stores, cache,
                   telemetry>>

\* lines 240-247
HydrateDocument(p) ==
    /\ pc[p] = "hydrate"
    /\ did_use_cache' = [did_use_cache EXCEPT
           ![p] = self.cache_dir /\ HydrateSucceeds(document_path[p])]
    /\ document_records' = [document_records EXCEPT ![p] = {}]
    /\ pc' = [pc EXCEPT ![p] = "validate"]
    /\ UNCHANGED <<config, history, primary, channels, document_path, exc, alarm, stores, cache,
                   telemetry>>

\* lines 248-249, 254-255
ValidateDocument(p) ==
    /\ pc[p] = "validate"
    /\ IF self.is_valid_document /\ ValidatorRaises(document_path[p].name)
       THEN Raise(p, "ValidationError")
       ELSE IF should_process_document(document_path[p])
       THEN /\ alarm' = [alarm EXCEPT ![p] = TRUE]
            /\ pc' = [pc EXCEPT ![p] = "records"]
            /\ UNCHANGED <<locals, exc>>
       ELSE /\ pc' = [pc EXCEPT ![p] = "postprocess"]
            /\ UNCHANGED <<locals, exc, alarm>>
    /\ UNCHANGED <<config, history, primary, channels, document_path, stores, cache,
                   telemetry>>

\* lines 250-253: doc.records
ReadRecords(p) ==
    /\ pc[p] = "records"
    /\ document_records' = [document_records EXCEPT ![p] = DocRecords(document_path[p].name)]
    /\ pc' = [pc EXCEPT ![p] = "postprocess"]
    /\ UNCHANGED <<config, history, primary, channels, document_path, did_use_cache, exc, alarm,
                   stores, cache, telemetry>>

\* line 257, lines 195-199
PostprocessRecords(p) ==
    /\ pc[p] = "postprocess"
    /\ filter_calls' = IF CallsFilter(document_records[p])
                       THEN filter_calls \cup {document_records[p]}
                       ELSE filter_calls
    /\ stores' = [stores EXCEPT
           ![db_name_for_file(document_path[p])] = <<filtered(document_records[p])>>]
    /\ pc' = [pc EXCEPT ![p] = "cache"]
    /\ UNCHANGED <<config, assignments, reports, primary, channels, document_path, locals, exc,
                   alarm, cache, telemetry>>

\* mutant: the cache is written whenever caching is configured
AlwaysWriteCache(used, configured) == configured

\* mutant: the cache is written on a cold start whether or not one is configured
WriteWhenNotUsed(used, configured) == ~used

\* line 259
ShouldWriteCache(used, configured) == ~used /\ configured

\* lines 259-260, then 262-289
CacheDocument(p) ==
    /\ pc[p] = "cache"
    /\ cache' = IF ShouldWriteCache(did_use_cache[p], self.cache_dir)
                THEN [cache EXCEPT ![document_path[p]] = @ + 1]
                ELSE cache
    /\ Finish(p)
    /\ UNCHANGED <<config, history, primary, channels, document_path, stores, wandb_log>>

\* SIGALRM with no handler installed: the default action terminates the process
AlarmFires(p) ==
    /\ alarm[p]
    /\ pc[p] \notin {"exited", "killed", "crashed", "done"}
    /\ pc' = [pc EXCEPT ![p] = "killed"]
    /\ alarm' = [alarm EXCEPT ![p] = FALSE]
    /\ did_use_cache' = [did_use_cache EXCEPT ![p] = FALSE]
    /\ document_records' = [document_records EXCEPT ![p] = {}]
    /\ UNCHANGED <<config, history, primary, channels, document_path, exc, stores, cache,
                   telemetry>>

-----------------------------------------------------------------------------
(* _start_worker *)

\* mutant: the worker takes the unit as already cleared by the skip gate
WorkerRecvNoGate(w) ==
    /\ pc[w] = "recv"
    /\ toWorker[w] # <<>>
    /\ toWorker' = [toWorker EXCEPT ![w] = Tail(@)]
    /\ IF Head(toWorker[w]).exit
       THEN /\ pc' = [pc EXCEPT ![w] = "exited"]
            /\ alarm' = [alarm EXCEPT ![w] = FALSE]
            /\ UNCHANGED document_path
       ELSE /\ document_path' = [document_path EXCEPT ![w] = Head(toWorker[w]).document_path]
            /\ pc' = [pc EXCEPT ![w] = "load"]
            /\ UNCHANGED alarm
    /\ UNCHANGED <<config, history, primary, toPrimary, locals, exc, stores, cache, telemetry>>

\* lines 371-375
WorkerRecv(w) ==
    /\ pc[w] = "recv"
    /\ toWorker[w] # <<>>
    /\ toWorker' = [toWorker EXCEPT ![w] = Tail(@)]
    /\ IF Head(toWorker[w]).exit
       THEN /\ pc' = [pc EXCEPT ![w] = "exited"]
            /\ alarm' = [alarm EXCEPT ![w] = FALSE]
            /\ UNCHANGED document_path
       ELSE /\ document_path' = [document_path EXCEPT ![w] = Head(toWorker[w]).document_path]
            /\ pc' = [pc EXCEPT ![w] = "should_open"]
            /\ UNCHANGED alarm
    /\ UNCHANGED <<config, history, primary, toPrimary, locals, exc, stores, cache, telemetry>>

\* line 378 sends the result of extract_paper, line 381 an empty list
Payload(e) == IF e = None THEN "None" ELSE "[]"

\* mutant: the worker leaves its loop after reporting (the break of line 382)
WorkerReportBreak(w) ==
    /\ pc[w] = "report"
    /\ toPrimary' = [toPrimary EXCEPT ![w] = Append(@, Payload(exc[w]))]
    /\ exc' = [exc EXCEPT ![w] = None]
    /\ pc' = [pc EXCEPT ![w] = IF exc[w] = None THEN "recv" ELSE "exited"]
    /\ UNCHANGED <<config, history, primary, toWorker, document_path, locals, alarm,
                   stores, cache, telemetry>>

\* lines 378, 381: the completion report; line 382: the loop goes on
WorkerReport(w) ==
    /\ pc[w] = "report"
    /\ toPrimary' = [toPrimary EXCEPT ![w] = Append(@, Payload(exc[w]))]
    /\ exc' = [exc EXCEPT ![w] = None]
    /\ pc' = [pc EXCEPT ![w] = "recv"]
    /\ UNCHANGED <<config, history, primary, toWorker, document_path, locals, alarm, stores,
                   cache, telemetry>>

-----------------------------------------------------------------------------
(* The pipeline run again over the same directory and output root *)

\* process p has ended, or waits for a message that is not there
Stopped(p) ==
    \/ pc[p] \in {"done", "crashed", "exited", "killed"}
    \/ p = 0 /\ pc[p] = "wait" /\ \A w \in Workers : toPrimary[w] = <<>>
    \/ p # 0 /\ pc[p] = "recv" /\ toWorker[p] = <<>>

RunOver == \A p \in Procs : Stopped(p)

\* the processes of the job are gone and the pipeline is started again over the
\* same directory and output root
StartAgain ==
    /\ prevStores' = stores
    /\ pc' = InitialPc
    /\ filenames' = <<>>
    /\ num_papers' = 0
    /\ index' = 0
    /\ n_finished' = 0
    /\ loop_i' = 0
    /\ toWorker' = [w \in Workers |-> <<>>]
    /\ toPrimary' = [w \in Workers |-> <<>>]
    /\ document_path' = [p \in Procs |-> NoPath]
    /\ did_use_cache' = [p \in Procs |-> FALSE]
    /\ document_records' = [p \in Procs |-> {}]
    /\ alarm' = [p \in Procs |-> FALSE]
    /\ exc' = [p \in Procs |-> None]
    /\ wandb_run' = None
    /\ wandb_log' = <<>>
    /\ assignments' = <<>>
    /\ reports' = [w \in Workers |-> 0]
    /\ setups' = 0
    /\ filter_calls' = {}
    /\ UNCHANGED <<self, listdir, arg_num_papers, stores, cache>>

\* the job has stopped by itself and is run again
SecondRun ==
    /\ run = "first"
    /\ RunOver
    /\ run' = "second"
    /\ StartAgain

\* the job is terminated from outside while it runs, and is run again
Resume ==
    /\ run = "first"
    /\ ~RunOver
    /\ run' = "resumed"
    /\ StartAgain

-----------------------------------------------------------------------------
Next ==
    \/ Enumerate
    \/ FanOut
    \/ \E w \in Workers : PrimaryRecv(w)
    \/ ExitWorker
    \/ EnumerateSingle
    \/ NextPaper
    \/ \E w \in Workers : WorkerRecv(w)
    \/ \E p \in Procs : ShouldOpenFile(p)
    \/ \E p \in Procs : LoadDocument(p)
    \/ \E p \in Procs : HydrateDocument(p)
    \/ \E p \in Procs : ValidateDocument(p)
    \/ \E p \in Procs : ReadRecords(p)
    \/ \E p \in Procs : PostprocessRecords(p)
    \/ \E p \in Procs : CacheDocument(p)
    \/ \E w \in Workers : WorkerReport(w)
    \/ \E p \in Procs : AlarmFires(p)
    \/ SecondRun

Spec == Init /\ [][Next]_vars

\* the same job, which may also be terminated from outside and run again
NextResume ==
    \/ Next
    \/ Resume

SpecResume == Init /\ [][NextResume]_vars

-----------------------------------------------------------------------------
(* Quantities the properties are stated in *)

InPaper == {"should_open", "load", "hydrate", "validate", "records", "postprocess", "cache"}

Count(seq, Test(_)) == Cardinality({k \in DOMAIN seq : Test(seq[k])})

\* assignments the primary sent to worker w
AssignedTo(w) == Count(assignments, LAMBDA a : a.to = w)

\* assignments sent to w that it has not received yet
PendingFor(w) == Count(toWorker[w], LAMBDA m : ~m.exit)

\* exit signals sent to w: those still in its channel and the one it took
ExitsSent(w) == Count(toWorker[w], LAMBDA m : m.exit) + (IF pc[w] = "exited" THEN 1 ELSE 0)

\* completion reports w has sent: those received and those still in its channel
ReportsSent(w) == reports[w] + Len(toPrimary[w])

\* the work units of the directory
Units == {FullPath(f) : f \in {listdir[k] : k \in DOMAIN listdir} \cap Documents}

StoreOf(path) == [root |-> "save_root_dir", name |-> <<path.name[1]>>]

-----------------------------------------------------------------------------
(* Properties *)

\* C1: in distributed mode without a cap and with fewer workers than units, every
\* worker is sent an assignment by the initial fan-out, no unit is assigned twice,
\* and when the primary turns to the exit signals every unit has been assigned and
\* exactly as many reports as there are units have been received.
C1_EveryUnitAssignedOnce ==
    (self.use_mpi /\ arg_num_papers = NoCap /\ self.size - 1 < Cardinality(Units)) =>
        /\ pc[0] \in {"wait", "exit", "done"} => \A w \in Workers : AssignedTo(w) >= 1
        /\ \A j, k \in DOMAIN assignments :
               j # k => assignments[j].path # assignments[k].path
        /\ \A k \in DOMAIN assignments : assignments[k].path \in Units
        /\ pc[0] \in {"exit", "done"} =>
               /\ {assignments[k].path : k \in DOMAIN assignments} = Units
               /\ n_finished = Cardinality(Units)
               /\ \A w \in Workers : reports[w] = AssignedTo(w) /\ PendingFor(w) = 0
        /\ pc[0] \notin {"exit", "done"} => \A w \in Workers : ExitsSent(w) = 0

C1_Witness ==
    /\ self.size = 3 /\ arg_num_papers = NoCap /\ Cardinality(Units) = 3
    /\ pc[0] = "done"
    /\ \A w \in Workers : pc[w] = "exited"

\* C2: a worker has sent exactly one completion report for every assignment it
\* has received and finished, whatever extract_paper raised; no exception ends a
\* worker, which leaves its loop only on an exit signal, and after a report it
\* waits for the next message.
C2_OneReportPerAssignment ==
    \A w \in Workers :
        /\ pc[w] # "crashed"
        /\ pc[w] = "exited" => pc[0] \in {"exit", "done"}
        /\ pc[w] # "killed" =>
               AssignedTo(w) - PendingFor(w) =
                   ReportsSent(w) + (IF pc[w] \in InPaper \cup {"report"} THEN 1 ELSE 0)

C2_Witness ==
    \E w \in Workers :
        /\ pc[w] = "recv"
        /\ document_path[w] = FullPath(CXml)
        /\ ReportsSent(w) = 2
        /\ AssignedTo(w) = 2

\* C3: when the second run over the same directory and output root has stopped,
\* the record stores are those the first run left.
C3_SecondRunChangesNothing == (run = "second" /\ RunOver) => stores = prevStores

\* C4: a call of extract_paper for a unit whose record store exists does not load
\* the document, does not validate or extract, arms no alarm and leaves the
\* record stores and the cache as they are.
C4_ExistingStoreIsSkipped ==
    [][\A p \in Procs :
         (/\ pc[p] = "should_open"
          /\ stores[StoreOf(document_path[p])] # NoStore
          /\ pc'[p] # pc[p])
         => /\ pc'[p] \notin InPaper
            /\ stores' = stores
            /\ cache' = cache
            /\ alarm'[p] => alarm[p]]_vars

C4_Witness ==
    \E p \in Procs :
        /\ run = "second"
        /\ pc[p] \in {"report", "crashed"}
        /\ exc[p] = "NameError"
        /\ prevStores[StoreOf(document_path[p])] # NoStore
        /\ stores = prevStores

\* C5: when the alarm goes off while a document's records are being computed,
\* the records are taken to be empty and the process goes on to postprocessing.
C5_TimeoutGivesEmptyRecords ==
    [][\A p \in Procs :
         (pc[p] = "records" /\ alarm[p] /\ ~alarm'[p])
         => (pc'[p] = "postprocess" /\ document_records'[p] = {})]_vars

\* C6: a document the validator rejects is never extracted (its records are not
\* read and no alarm is armed for it), and the record store written for it holds
\* an empty collection.
Rejected(p) ==
    /\ self.is_valid_document
    /\ document_path[p] # NoPath
    /\ ~IsValidDocument(document_path[p].name)

C6_InvalidDocumentNotExtracted ==
    [][\A p \in Procs :
         Rejected(p) =>
            /\ pc[p] # "records" /\ pc'[p] # "records"
            /\ (pc[p] = "validate" /\ pc'[p] # pc[p]) =>
                   /\ pc'[p] \in {"postprocess", "killed"}
                   /\ alarm'[p] => alarm[p]
            /\ (pc[p] = "postprocess" /\ pc'[p] = "cache") =>
                   stores'[StoreOf(document_path[p])] = <<{}>>]_vars

C6_Witness ==
    \E p \in Procs :
        /\ Rejected(p)
        /\ pc[p] = "cache"
        /\ ~alarm[p]
        /\ stores[StoreOf(document_path[p])] = <<{}>>

\* C7: a hydration that fails (a miss, a document that does not support caching)
\* raises nothing out of extract_paper: the process goes on to validation with
\* did_use_cache false, as on a cold start.
C7_HydrationFailureIsSwallowed ==
    [][\A p \in Procs :
         (/\ pc[p] = "hydrate"
          /\ self.cache_dir
          /\ cache[document_path[p]] = 0 \/ ~SupportsCaching(document_path[p].name)
          /\ pc'[p] # pc[p])
         => /\ pc'[p] \in {"validate", "killed"}
            /\ exc'[p] = exc[p]
            /\ ~did_use_cache'[p]]_vars

C7_Witness ==
    \E p \in Procs :
        /\ self.cache_dir
        /\ document_path[p] = FullPath(APdf)
        /\ cache[document_path[p]] = 1
        /\ pc[p] = "validate"
        /\ ~did_use_cache[p]

\* C8: the primary sends exit signals only when it has received as many reports
\* as it has assigned units, and then one to every worker; at that time no
\* worker has an assignment it has not reported, and no assignment follows an
\* exit signal.
C8_ExitAfterAllReports ==
    self.use_mpi =>
        /\ pc[0] \in {"exit", "done"} =>
               /\ n_finished = Len(assignments)
               /\ \A w \in Workers :
                      /\ reports[w] = AssignedTo(w)
                      /\ toPrimary[w] = <<>>
                      /\ PendingFor(w) = 0
                      /\ pc[w] \in {"recv", "exited", "killed"}
        /\ \A w \in Workers :
               ExitsSent(w) =
                   (IF pc[0] = "done" \/ (pc[0] = "exit" /\ loop_i > w) THEN 1 ELSE 0)

C8_Witness ==
    /\ self.size = 3
    /\ pc[0] = "done"
    /\ Len(assignments) = 3
    /\ \A w \in Workers : pc[w] = "exited"

\* C9: with a cap, the number of units assigned never exceeds the cap.
C9_AssignedWithinCap ==
    (self.use_mpi /\ arg_num_papers # NoCap) => Len(assignments) <= arg_num_papers[1]

\* C10: a document hydrated from its cache entry has did_use_cache set, and the
\* cache entry of its path is not written by the rest of extract_paper.
C10_WarmCacheNotRewritten ==
    [][\A p \in Procs :
         /\ (/\ pc[p] = "hydrate" /\ pc'[p] = "validate"
             /\ self.cache_dir
             /\ cache[document_path[p]] > 0 /\ SupportsCaching(document_path[p].name))
            => did_use_cache'[p]
         /\ (pc[p] \in {"validate", "records", "postprocess", "cache"} /\ did_use_cache[p])
            => cache'[document_path[p]] = cache[document_path[p]]]_vars

C10_Witness ==
    \E p \in Procs :
        /\ run = "first"
        /\ self.cache_dir
        /\ document_path[p] = FullPath(BXml)
        /\ pc[p] \in {"report", "crashed"}
        /\ exc[p] = "NameError"
        /\ stores[StoreOf(document_path[p])] # NoStore
        /\ cache[document_path[p]] = 1

\* C11: once a strategy has enumerated, single-process or distributed, its work
\* units are exactly the documents of the directory, in the directory's order:
\* the entries with a leading '.' and those holding 'records.txt' are left out,
\* and a.xml, b.xml, .hidden.xml, a_records.txt gives a.xml, b.xml.
C11_EnumerationFilter ==
    pc[0] # "start" =>
        /\ filenames = SelectSeq(listdir, LAMBDA f : f \in Documents)
        /\ listdir = <<AXml, BXml, HiddenXml, ARecordsTxt>> => filenames = <<AXml, BXml>>

C11_Witness ==
    /\ pc[0] # "start"
    /\ listdir = <<AXml, BXml, HiddenXml, ARecordsTxt>>
    /\ filenames = <<AXml, BXml>>

\* the calls of extract_paper the single process has made
SingleAttempted == IF document_path[0] = NoPath THEN 0 ELSE index + 1

Min(a, b) == IF a < b THEN a ELSE b

\* C12: when the single-process loop has stopped under a cap n, with no loader
\* or validator failure, min(W, n + 1) of the W enumerated units were attempted.
C12_CapPlusOneAttempted ==
    (/\ ~self.use_mpi
     /\ arg_num_papers # NoCap
     /\ pc[0] \in {"done", "crashed"}
     /\ exc[0] \in {None, "NameError"})
    => SingleAttempted = Min(Len(filenames), arg_num_papers[1] + 1)

\* C13: within a run a worker moves only from waiting for a message to an
\* assignment, through the steps of extract_paper to its completion report and
\* back to waiting, and it ends only by taking an exit signal while it waits.
C13_WorkerStateMachine ==
    [][run' = run =>
         \A w \in Workers :
            pc'[w] # pc[w] =>
               \/ pc[w] = "recv" /\ pc'[w] = "should_open"
               \/ pc[w] \in InPaper /\ pc'[w] \in InPaper \cup {"report"}
               \/ pc[w] = "report" /\ pc'[w] = "recv"
               \/ /\ pc[w] = "recv" /\ pc'[w] = "exited"
                  /\ toWorker[w] # <<>> /\ Head(toWorker[w]).exit]_vars

\* C14 as stated: in distributed mode no worker evaluates the skip gate, and the
\* primary assigns no unit whose record store exists.
C14_PrimaryDecidesSkip ==
    [][self.use_mpi =>
         /\ \A w \in Workers : pc'[w] # "should_open"
         /\ Len(assignments') > Len(assignments) =>
                stores[StoreOf(assignments'[Len(assignments')].path)] = NoStore]_vars

\* C14 as amended: in distributed mode the primary hands out the enumerated
\* units in order whether or not their record stores exist and never runs
\* extract_paper; the worker that takes an assignment evaluates the skip gate
\* first, and loads the document only when the unit's store does not exist.
C14_WorkerEvaluatesSkipGate ==
    [][self.use_mpi =>
         /\ pc'[0] \notin InPaper
         /\ \A k \in DOMAIN assignments' : assignments'[k].path = FullPath(filenames'[k])
         /\ \A w \in Workers :
               /\ (pc[w] = "recv" /\ pc'[w] \in InPaper) => pc'[w] = "should_open"
               /\ (pc[w] # "load" /\ pc'[w] = "load") =>
                      /\ pc[w] = "should_open"
                      /\ stores[StoreOf(document_path[w])] = NoStore]_vars

C14_Witness ==
    \E w \in Workers :
        /\ self.use_mpi
        /\ run = "second"
        /\ AssignedTo(w) >= 1
        /\ pc[w] = "report"
        /\ exc[w] = "NameError"
        /\ prevStores[StoreOf(document_path[w])] # NoStore
        /\ stores = prevStores

\* C15: once a unit is loaded and its validation has returned, the process goes
\* on to postprocessing, also when the extraction timed out, and postprocessing
\* leaves a record store for the unit; a record store, once there, stays.
C15_StoreAfterPostprocessing ==
    [][run' = run =>
         /\ \A p \in Procs :
               /\ (pc[p] = "records" /\ pc'[p] # pc[p]) => pc'[p] = "postprocess"
               /\ (pc[p] = "postprocess" /\ pc'[p] # pc[p]) =>
                      /\ pc'[p] = "cache"
                      /\ stores'[StoreOf(document_path[p])] # NoStore
         /\ \A n \in StoreNames : stores[n] # NoStore => stores'[n] # NoStore]_vars

\* the next step of p's extract_paper is a loader or a validator exception
Fails(p) ==
    \/ pc[p] = "load" /\ LoadFails(document_path[p].name)
    \/ pc[p] = "validate" /\ self.is_valid_document /\ ValidatorRaises(document_path[p].name)

\* C16: a loader or validator exception writes no record store. In the
\* single-process strategy it ends the run: the process stays where the exception
\* left it and attempts no later unit. In the distributed strategy the worker
\* answers it with an empty report and waits for its next message, and a primary
\* without a cap reaches its exit loop only when every enumerated unit has been
\* assigned and reported.
C16_ExceptionAtCallSite ==
    [][run' = run =>
         /\ \A p \in Procs :
               (Fails(p) /\ pc'[p] # pc[p]) =>
                  /\ pc'[p] \in {IF self.use_mpi THEN "report" ELSE "crashed", "killed"}
                  /\ stores' = stores
         /\ (~self.use_mpi /\ pc[0] = "crashed") =>
               /\ pc'[0] = "crashed"
               /\ document_path' = document_path
               /\ stores' = stores
         /\ \A w \in Workers :
               (/\ pc[w] = "report"
                /\ exc[w] \in {"LoadError", "ValidationError"}
                /\ pc'[w] # pc[w]) =>
                  /\ pc'[w] \in {"recv", "killed"}
                  /\ pc'[w] = "recv" => toPrimary'[w] = Append(toPrimary[w], "[]")
                  /\ stores' = stores
         /\ (self.use_mpi /\ arg_num_papers = NoCap /\ pc'[0] \in {"exit", "done"}) =>
               /\ Len(assignments') = Len(filenames')
               /\ n_finished' = Len(filenames')]_vars

C16_Witness ==
    /\ self.use_mpi
    /\ self.is_valid_document
    /\ arg_num_papers = NoCap
    /\ run = "first"
    /\ filenames = <<APdf, BXml, CXml>>
    /\ pc[0] = "done"
    /\ stores[StoreOf(FullPath(APdf))] = NoStore
    /\ stores[StoreOf(FullPath(BXml))] # NoStore
    /\ stores[StoreOf(FullPath(CXml))] = NoStore

\* C17: with telemetry on, the values logged as progress are 1, 2, ... in order,
\* one per completed unit, in either strategy.
C17_ProgressCountsCompleted ==
    self.use_wandb => \A k \in DOMAIN wandb_log : wandb_log[k] = k

\* no unit of the directory makes the loader or the validator raise
NoUnitFails ==
    \A u \in Units :
        /\ ~LoadFails(u.name)
        /\ ~(self.is_valid_document /\ ValidatorRaises(u.name))

\* C18: when a run without a cap that followed an external termination has
\* stopped with none of its processes killed, over a directory none of whose
\* units fails, the record stores the terminated run left are as they were and
\* every unit of the directory has a record store.
C18_ResumeCompletesTheRest ==
    (/\ run = "resumed"
     /\ arg_num_papers = NoCap
     /\ NoUnitFails
     /\ RunOver
     /\ \A p \in Procs : pc[p] # "killed")
    => /\ \A n \in StoreNames : prevStores[n] # NoStore => stores[n] = prevStores[n]
       /\ \A u \in Units : stores[StoreOf(u)] # NoStore

\* C19: by the time a strategy runs (the single-process loop, or the primary of
\* the distributed strategy), the setup of will_start_extraction has been made.
C19_SetupThenStrategy == pc[0] # "start" => setups >= 1

\* C20: will_start_extraction is called only at the start of a run, before any
\* process has taken up a work unit, and at most once in a run.
C20_SetupOnceAtRunStart ==
    [][(run' = run /\ setups' # setups) =>
         /\ setups = 0
         /\ \A p \in Procs : document_path[p] = NoPath]_vars

\* C21: the step that postprocesses a unit's records writes that unit's record
\* store and no other, with the filtered records when a filter is configured and
\* the collection is not empty, and with the collection as extracted otherwise;
\* the filter is called in the first case only, so never on an empty collection;
\* no other step writes a record store, and a call of extract_paper that has
\* written its store leaves the pipeline without writing again.
C21_PersistedRecords ==
    [][run' = run =>
         /\ \A p \in Procs :
               (pc[p] = "postprocess" /\ pc'[p] = "cache") =>
                  LET recs == document_records[p]
                      uses == self.filter_results /\ recs # {}
                  IN  /\ stores' = [stores EXCEPT ![StoreOf(document_path[p])] =
                                        <<IF uses THEN FilterStub(recs) ELSE recs>>]
                      /\ filter_calls' = IF uses THEN filter_calls \cup {recs}
                                         ELSE filter_calls
         /\ stores' # stores => \E p \in Procs : pc[p] = "postprocess" /\ pc'[p] = "cache"
         /\ {} \notin filter_calls'
         /\ \A p \in Procs : (pc[p] = "cache" /\ pc'[p] # pc[p]) => pc'[p] \notin InPaper]_vars

C21_Witness ==
    /\ self.filter_results
    /\ self.is_valid_document
    /\ filter_calls = {{1, 2}}
    /\ stores[StoreOf(FullPath(AXml))] = <<{1}>>
    /\ stores[StoreOf(FullPath(BXml))] = <<{}>>

\* C22: the step that ends a non-skipped unit's extract_paper, taken when the
\* unit's record store is written, writes the unit's cache entry exactly when a
\* cache is configured and the unit's hydration did not succeed (no entry, or a
\* document that cannot be hydrated); no other step writes the cache, and with
\* no cache configured the cache stays as it is and no document counts as
\* hydrated.
C22_CacheWrittenOnColdStart ==
    [][run' = run =>
         /\ \A p \in Procs :
               (pc[p] = "cache" /\ pc'[p] \notin {"cache", "killed"}) =>
                  LET path == document_path[p]
                      hydrated == /\ self.cache_dir
                                  /\ cache[path] > 0
                                  /\ SupportsCaching(path.name)
                  IN  /\ stores[StoreOf(path)] # NoStore
                      /\ cache' = IF self.cache_dir /\ ~hydrated
                                  THEN [cache EXCEPT ![path] = @ + 1]
                                  ELSE cache
         /\ cache' # cache => \E p \in Procs : pc[p] = "cache" /\ pc'[p] \notin InPaper
         /\ ~self.cache_dir => cache' = cache /\ \A p \in Procs : ~did_use_cache'[p]]_vars

C22_Witness ==
    \E p \in Procs :
        /\ self.cache_dir
        /\ document_path[p] = FullPath(APdf)
        /\ pc[p] \in {"report", "crashed"}
        /\ exc[p] = "NameError"
        /\ stores[StoreOf(document_path[p])] = <<{3}>>
        /\ cache[document_path[p]] = 2

\* the accounts of the primary
OneUnitPerWorker ==
    /\ \A w \in Workers : AssignedTo(w) - reports[w] \in {0, 1}
    /\ n_finished <= Len(assignments)
    /\ Len(assignments) - n_finished <= self.size - 1

\* C23: in distributed mode a worker never has more than one unit assigned and
\* not yet reported to the primary, the reports received never exceed the units
\* assigned, the units in flight never exceed the workers, and a unit assigned
\* after the fan-out goes to the worker whose report the primary has just taken.
C23_ReassignToReporter ==
    [][(self.use_mpi /\ run' = run) =>
         /\ OneUnitPerWorker
         /\ OneUnitPerWorker'
         /\ (pc[0] = "wait" /\ Len(assignments') > Len(assignments)) =>
               /\ Len(assignments') = Len(assignments) + 1
               /\ \E w \in Workers :
                     /\ reports'[w] = reports[w] + 1
                     /\ assignments'[Len(assignments')].to = w]_vars

C23_Witness ==
    /\ self.size = 3
    /\ Len(assignments) = 3
    /\ n_finished = 1
    /\ reports[2] = 1
    /\ assignments[3].to = 2

\* C24: in distributed mode, with no more workers than units and a cap that is
\* absent or at most the number of units, a run in which every unit a worker took
\* up has been answered by a report does not come to a halt before the primary
\* is past its exit loop and every worker has taken its exit signal.
C24_NoProcessLeftBlocked ==
    (/\ self.use_mpi
     /\ self.size - 1 <= Cardinality(Units)
     /\ arg_num_papers # NoCap => arg_num_papers[1] <= Cardinality(Units)
     /\ \A w \in Workers : AssignedTo(w) - PendingFor(w) = ReportsSent(w)
     /\ RunOver)
    => /\ pc[0] = "done"
       /\ \A w \in Workers : pc[w] = "exited"

\* C25: whatever the numbers of units and workers and the cap, the primary of
\* the distributed strategy does not fail on an access past the end of the
\* enumerated list.
C25_NoAccessPastTheList == self.use_mpi => pc[0] # "crashed"

\* C26: an alarm is pending in a process only while that process computes the
\* records of a unit.
C26_AlarmOnlyDuringRecords == \A p \in Procs : alarm[p] => pc[p] = "records"

\* process p has passed the skip check of its unit and has not yet written the
\* unit's record store
InWindow(p) == pc[p] \in {"load", "hydrate", "validate", "records", "postprocess"}

\* C27: in distributed mode no two workers are at the same time between the
\* skip check and the store write of units with the same record store path.
C27_NoConcurrentStoreWrite ==
    self.use_mpi =>
        \A v, w \in Workers :
            (v # w /\ InWindow(v) /\ InWindow(w)) =>
                db_name_for_file(document_path[v]) # db_name_for_file(document_path[w])

\* C28: two different enumerated work units have different record store names.
C28_StoreNamesInjective ==
    \A j, k \in DOMAIN filenames :
        j # k => db_name_for_file(FullPath(filenames[j])) # db_name_for_file(FullPath(filenames[k]))

\* C29: a call of extract_paper whose unit is skipped, or whose steps have all
\* succeeded up to the cache write, ends without an exception and without a
\* call of will_start_extraction.
C29_ReturnsNormally ==
    [][\A p \in Procs :
         (/\ run' = run
          /\ \/ pc[p] = "cache"
             \/ pc[p] = "should_open" /\ stores[StoreOf(document_path[p])] # NoStore
          /\ pc'[p] \notin InPaper \cup {"killed"})
         => /\ exc'[p] = None
            /\ pc'[p] # "crashed"
            /\ setups' = setups]_vars

\* the records a run is to persist for unit u, whatever the strategy
ExpectedRecords(u) ==
    LET extracted == IF self.is_valid_document /\ ~IsValidDocument(u.name)
                     THEN {}
                     ELSE DocRecords(u.name)
    IN  IF self.filter_results /\ extracted # {} THEN FilterStub(extracted) ELSE extracted

\* C30: when a first run without a cap has stopped, with no more workers than
\* units, no unit that fails and no process killed, every unit of the directory
\* has its record store, holding that unit's records when no other unit shares
\* the store: the outcome is the same function of the directory for the
\* single-process and the distributed strategy.
C30_SameStoresEitherStrategy ==
    (/\ run = "first"
     /\ arg_num_papers = NoCap
     /\ NoUnitFails
     /\ self.size - 1 <= Cardinality(Units)
     /\ RunOver
     /\ \A p \in Procs : pc[p] # "killed")
    => \A u \in Units :
          /\ stores[StoreOf(u)] # NoStore
          /\ (\A v \in Units : v # u => StoreOf(v) # StoreOf(u)) =>
                 stores[StoreOf(u)] = <<ExpectedRecords(u)>>

\* C31: when the primary of the distributed strategy is past its exit loop and
\* every worker has left its loop on an exit signal, no message is left in any
\* channel: every worker has taken all its assignments and its exit signal, and
\* the primary has taken a report for every assignment.
C31_ChannelsEmptyAtTermination ==
    (/\ self.use_mpi
     /\ pc[0] = "done"
     /\ \A w \in Workers : pc[w] = "exited")
    => \A w \in Workers :
          /\ toWorker[w] = <<>>
          /\ toPrimary[w] = <<>>
          /\ reports[w] = AssignedTo(w)

C31_Witness ==
    /\ self.size = 2
    /\ pc[0] = "done"
    /\ pc[1] = "exited"
    /\ AssignedTo(1) = 2
    /\ reports[1] = 2
    /\ toWorker[1] = <<>>
    /\ toPrimary[1] = <<>>

====
